---- MODULE Spec2Model ----
(***************************************************************************)
(* Model of src/app.py: the FastAPI notification relay.  One event loop    *)
(* runs the request handlers; the blocking provider call sg.send is handed *)
(* to the loop's default thread-pool executor.                             *)
(*                                                                         *)
(* Python strings that the code inspects (strip, startswith, "in", the     *)
(* email regex) are sequences of one-character strings.  Strings the code  *)
(* only emits (messages, labels, CSS) are TLA+ strings.                    *)
(***************************************************************************)
EXTENDS Integers, Sequences, FiniteSets, TLC

(* ------------------------------ bounds --------------------------------- *)
\* number of requests a behaviour may contain
MaxRequests == 2
\* max_workers of the loop's default ThreadPoolExecutor
MaxWorkers == 1
\* number of tokens a generated button_link is concatenated from
MaxUrlTokens == 3

(* --------------------------- string helpers ---------------------------- *)
\* characters removed by str.strip() with no argument
Whitespace == {" ", "\t", "\n", "\r"}

RECURSIVE lstrip(_)
lstrip(s) == IF s # <<>> /\ Head(s) \in Whitespace THEN lstrip(Tail(s)) ELSE s

RECURSIVE rstrip(_)
rstrip(s) ==
    IF s # <<>> /\ s[Len(s)] \in Whitespace
    THEN rstrip(SubSeq(s, 1, Len(s) - 1))
    ELSE s

\* str.strip()
strip(s) == rstrip(lstrip(s))

\* str.startswith(p)
startswith(s, p) == Len(s) >= Len(p) /\ SubSeq(s, 1, Len(p)) = p

\* the Python expression  p in s  on strings
In(p, s) == \E i \in 1..(Len(s) - Len(p) + 1) : SubSeq(s, i, i + Len(p) - 1) = p

RECURSIVE replace(_, _, _)
\* str.replace(old, new) for a one-character old
replace(s, old, new) ==
    IF s = <<>> THEN <<>>
    ELSE IF Head(s) = old THEN new \o replace(Tail(s), old, new)
    ELSE <<Head(s)>> \o replace(Tail(s), old, new)

\* bool(s) of a string
Truthy(s) == s # <<>>

(* --------------------------- validate_email ---------------------------- *)
Letters == {"a", "b", "c", "d", "e", "f", "g", "h", "i", "j", "k", "l", "m", "n", "o", "p", "q", "r", "s", "t", "u", "v", "w", "x", "y", "z", "A", "B", "C", "D", "E", "F", "G", "H", "I", "J", "K", "L", "M", "N", "O", "P", "Q", "R", "S", "T", "U", "V", "W", "X", "Y", "Z"}
Digits == {"0", "1", "2", "3", "4", "5", "6", "7", "8", "9"}
\* [a-zA-Z0-9._%+-]
LocalChars == Letters \cup Digits \cup {".", "_", "%", "+", "-"}
\* [a-zA-Z0-9.-]
DomainChars == Letters \cup Digits \cup {".", "-"}

AllIn(s, lo, hi, chars) == \A k \in lo..hi : s[k] \in chars

\* ^[a-zA-Z0-9._%+-]+@[a-zA-Z0-9.-]+\.[a-zA-Z]{2,} matched against all of t
PatternFull(t) ==
    \E i \in 2..Len(t) : \E j \in (i + 2)..(Len(t) - 2) :
        /\ t[i] = "@"
        /\ AllIn(t, 1, i - 1, LocalChars)
        /\ t[j] = "."
        /\ AllIn(t, i + 1, j - 1, DomainChars)
        /\ AllIn(t, j + 1, Len(t), Letters)

\* re.match(pattern, email) is not None; "$" also matches before a final newline
validate_email(email) ==
    \/ PatternFull(email)
    \/ /\ email # <<>>
       /\ email[Len(email)] = "\n"
       /\ PatternFull(SubSeq(email, 1, Len(email) - 1))

(* ----------------------- create_email_with_button ---------------------- *)
BrandDomain == <<"t", "h", "e", "t", "h", "i", "n", "k", "f", "i", "t", ".", "i", "n">>
BrandInvite == <<"t", "h", "e", "t", "h", "i", "n", "k", "f", "i", "t", ".", "i", "n", "/", "i", "n", "v", "i", "t", "e">>
S_document == <<"d", "o", "c", "u", "m", "e", "n", "t">>
S_doc == <<"d", "o", "c">>
S_share == <<"s", "h", "a", "r", "e">>
S_shared == <<"s", "h", "a", "r", "e", "d">>
S_http == <<"h", "t", "t", "p">>
S_br == <<"<", "b", "r", ">">>

GreenGradient == "background: linear-gradient(135deg, #4CAF50 0%, #45a049 100%);"
GreenShadow == "76, 175, 80"
PurpleGradient == "background: linear-gradient(135deg, #667eea 0%, #764ba2 100%);"
PurpleShadow == "102, 126, 234"

\* variant: the document rule is tried before the brand rules
get_smart_button_text_doc_first(url) ==
    IF In(S_document, url) \/ In(S_doc, url) THEN "View Document"
    ELSE IF In(BrandInvite, url) THEN "Join ThinkFit"
    ELSE IF In(BrandDomain, url) THEN "Open ThinkFit"
    ELSE IF In(S_share, url) \/ In(S_shared, url) THEN "View Shared Content"
    ELSE "Open Link"

\* variant: the share rule is missing
get_smart_button_text_no_share(url) ==
    IF In(BrandInvite, url) THEN "Join ThinkFit"
    ELSE IF In(BrandDomain, url) THEN "Open ThinkFit"
    ELSE IF In(S_document, url) \/ In(S_doc, url) THEN "View Document"
    ELSE "Open Link"

\* the label of the button, from the link
get_smart_button_text(url) ==
    IF In(BrandInvite, url) THEN "Join ThinkFit"
    ELSE IF In(BrandDomain, url) THEN "Open ThinkFit"
    ELSE IF In(S_document, url) \/ In(S_doc, url) THEN "View Document"
    ELSE IF In(S_share, url) \/ In(S_shared, url) THEN "View Shared Content"
    ELSE "Open Link"

\* the colour scheme of the button, chosen from the link alone
button_style(button_link) ==
    IF In(BrandDomain, button_link)
    THEN [gradient |-> GreenGradient, shadow_color |-> GreenShadow]
    ELSE [gradient |-> PurpleGradient, shadow_color |-> PurpleShadow]

\* button_html: the empty string, or the one div block with its holes filled
button_block(button_link) ==
    IF Truthy(button_link)
    THEN << [href |-> button_link,
             gradient |-> button_style(button_link).gradient,
             shadow_color |-> button_style(button_link).shadow_color,
             button_text |-> get_smart_button_text(button_link)] >>
    ELSE <<>>

\* the HTML document, reduced to the two holes of the fixed template
create_email_with_button(content, button_link) ==
    [html_content |-> replace(content, "\n", S_br),
     button_html |-> button_block(button_link)]

(* ------------------------------ JSON values ---------------------------- *)
\* a parsed JSON value: t is the Python type name, v the value
JStr(s) == [t |-> "str", v |-> s]
JInt(n) == [t |-> "int", v |-> n]
JNull == [t |-> "NoneType", v |-> 0]
JDict(d) == [t |-> "dict", v |-> d]

\* bool(data) of a parsed value
PyTruthy(x) ==
    CASE x.t = "str" -> x.v # <<>>
      [] x.t = "int" -> x.v # 0
      [] x.t = "NoneType" -> FALSE
      [] x.t = "dict" -> DOMAIN x.v # {}

\* dict.get(key, default)
dict_get(d, key, default) == IF key \in DOMAIN d THEN d[key] ELSE default

\* str(e) of the AttributeError raised by  x.attr  on a value of type t
AttributeError(t, attr) ==
    CASE t = "int" /\ attr = "get" -> "'int' object has no attribute 'get'"
      [] t = "str" /\ attr = "get" -> "'str' object has no attribute 'get'"
      [] t = "int" /\ attr = "strip" -> "'int' object has no attribute 'strip'"
      [] t = "NoneType" /\ attr = "strip" -> "'NoneType' object has no attribute 'strip'"
      [] t = "dict" /\ attr = "strip" -> "'dict' object has no attribute 'strip'"

\* str(e) of the JSONDecodeError json.loads raises on an empty or non-JSON body
JSONDecodeError == "Expecting value: line 1 column 1 (char 0)"

(* ------------------------- control-flow outcomes ----------------------- *)
Return(resp) == [kind |-> "return", value |-> resp]
Raise(e) == [kind |-> "raise", value |-> e]
Continue(x) == [kind |-> "continue", value |-> x]

JSONResponse(content, status_code) == [content |-> content, status_code |-> status_code]

\* the {success: False, message} envelope
Failure(message) == [success |-> FALSE, message |-> message, data |-> <<>>]

(* ------------------------------- handlers ------------------------------ *)
None == "None"
SendGridAPIClient == "SendGridAPIClient"

\* GET /health (the timestamp field is left out: no handler reads it)
health_check(sgv) ==
    JSONResponse([status |-> "running", sendgrid_configured |-> (sgv # None)], 200)

\* variant: the error is answered without its description
except_Exception_generic(e) ==
    JSONResponse(Failure(<<"Internal Server Error">>), 500)

\* the except clause of send_email
except_Exception(e) ==
    JSONResponse(Failure(<<"Failed to send email: ", e>>), 500)

\* variant: the configuration check is skipped
send_email_start_unchecked(sgv) == Continue("request.json")

\* the configuration check that opens the try block
send_email_start(sgv) ==
    IF sgv = None
    THEN Return(JSONResponse(Failure(
            <<"SendGrid not configured. Please check SENDGRID_API_KEY environment variable.">>), 500))
    ELSE Continue("request.json")

\* await request.json(): the parsed body, or the decoder's error
request_json(body) ==
    IF body.raw = "json" THEN Return(body.data) ELSE Raise(JSONDecodeError)

\* the optional link: a non-empty link that does not start with 'http' is dropped
filter_button_link(button_link) ==
    IF Truthy(button_link) /\ ~startswith(button_link, S_http) THEN <<>> ELSE button_link

\* variant: to_email is checked before from_email
validate_fields_to_first(from_email, to_email, content) ==
    IF ~Truthy(to_email) THEN "to_email is required"
    ELSE IF ~Truthy(from_email) THEN "from_email is required"
    ELSE IF ~Truthy(content) THEN "content is required"
    ELSE IF ~validate_email(from_email) THEN "Invalid from_email format"
    ELSE IF ~validate_email(to_email) THEN "Invalid to_email format"
    ELSE "ok"

\* variant: the checks are skipped and every request goes on to dispatch
validate_fields_skipped(from_email, to_email, content) == "ok"

\* the five validation checks, in order; "ok" when all pass
validate_fields(from_email, to_email, content) ==
    IF ~Truthy(from_email) THEN "from_email is required"
    ELSE IF ~Truthy(to_email) THEN "to_email is required"
    ELSE IF ~Truthy(content) THEN "content is required"
    ELSE IF ~validate_email(from_email) THEN "Invalid from_email format"
    ELSE IF ~validate_email(to_email) THEN "Invalid to_email format"
    ELSE "ok"

\* Mail(From, To, Subject, HtmlContent) with click and open tracking disabled
Mail(from_email, to_email, html_content) ==
    [from_email |-> from_email, to_email |-> to_email, subject |-> "Shared Content",
     html_content |-> html_content,
     tracking_settings |-> [click_tracking |-> FALSE, open_tracking |-> FALSE]]

\* the handler from the parsed body up to the suspension on run_in_executor
send_email_body(body) ==
    LET parsed == request_json(body) IN
    IF parsed.kind = "raise" THEN parsed
    ELSE LET data == parsed.value IN
    IF ~PyTruthy(data) THEN Return(JSONResponse(Failure(<<"No JSON data provided">>), 400))
    ELSE IF data.t # "dict" THEN Raise(AttributeError(data.t, "get"))
    ELSE LET f == dict_get(data.v, "from_email", JStr(<<>>))
             t == dict_get(data.v, "to_email", JStr(<<>>))
             c == dict_get(data.v, "content", JStr(<<>>))
             b == dict_get(data.v, "button_link", JStr(<<>>))
         IN
    IF f.t # "str" THEN Raise(AttributeError(f.t, "strip"))
    ELSE IF t.t # "str" THEN Raise(AttributeError(t.t, "strip"))
    ELSE IF c.t # "str" THEN Raise(AttributeError(c.t, "strip"))
    ELSE IF b.t # "str" THEN Raise(AttributeError(b.t, "strip"))
    ELSE LET from_email == strip(f.v)
             to_email == strip(t.v)
             content == strip(c.v)
             button_link == filter_button_link(strip(b.v))
             failed_check == validate_fields(from_email, to_email, content)
         IN
    IF failed_check # "ok" THEN Return(JSONResponse(Failure(<<failed_check>>), 400))
    ELSE Continue([from_email |-> from_email, to_email |-> to_email,
                   button_link |-> button_link,
                   mail |-> Mail(from_email, to_email,
                                 create_email_with_button(content, button_link))])

\* the handler after run_in_executor has completed with a response
\* (data.timestamp is left out, as above)
send_email_success(locals, response) ==
    JSONResponse([success |-> TRUE, message |-> <<"Email sent successfully">>,
                  data |-> << [from_email |-> locals.from_email,
                               to_email |-> locals.to_email,
                               has_button |-> Truthy(locals.button_link),
                               status_code |-> response.status_code] >>], 200)

(* ------------------------------- provider ------------------------------ *)
\* status codes sg.send may return, and the errors it may raise
ProviderStatus == {200, 202}
ProviderErrors == {"HTTP Error 401: Unauthorized"}
SendOutcomes ==
    {Return([status_code |-> s]) : s \in ProviderStatus} \cup {Raise(e) : e \in ProviderErrors}

\* variant: sg.send is called directly on the event-loop thread
RunsOnLoop == "loop"

\* where loop.run_in_executor(None, sg.send, mail) runs sg.send
RunsOn == "executor"

(* -------------------------------- inputs ------------------------------- *)
\* marks a key the client left out of the JSON object
Missing == [t |-> "missing", v |-> 0]

\* the JSON object holding the keys whose value is not Missing
MakeDict(f, t, c, b, o) ==
    LET all == [from_email |-> f, to_email |-> t, content |-> c, button_link |-> b, other |-> o]
        keys == {k \in DOMAIN all : all[k].t # "missing"}
    IN  JDict([k \in keys |-> all[k]])

AbsentBody == [raw |-> "absent", data |-> JNull]
GarbageBody == [raw |-> "garbage", data |-> JNull]
JsonBody(x) == [raw |-> "json", data |-> x]

E_a_b_co == <<"a", "@", "b", ".", "c", "o">>
E_c_d_io == <<"c", "@", "d", ".", "i", "o">>
E_e_f_org_padded == <<" ", "e", "@", "f", ".", "o", "r", "g", "\n">>
T_hi == <<"h", "i", "\n", "y", "o">>

FromValues == {Missing, JStr(<<>>), JStr(<<" ", " ">>), JInt(5), JStr(E_a_b_co), JStr(<<"a", "@", "b">>)}
ToValues == {Missing, JStr(<<>>), JNull, JStr(E_c_d_io), JStr(E_e_f_org_padded), JStr(<<"@", "b", ".", "c", "o", "m">>)}
ContentValues == {Missing, JStr(<<" ", "\n">>), JStr(T_hi), JInt(5)}
ButtonValues ==
    {Missing, JStr(<<>>), JInt(5), JStr(<<"f", "t", "p", ":", "/", "/", "x", ".", "c", "o", "m">>), JStr(<<"h", "t", "t", "p", "x">>),
     JStr(<<" ", "h", "t", "t", "p", "s", ":", "/", "/", "a", "p", "p", ".", "t", "h", "e", "t", "h", "i", "n", "k", "f", "i", "t", ".", "i", "n", "/", "i", "n", "v", "i", "t", "e", "?", "x", "=", "1", " ">>), JStr(<<"h", "t", "t", "p", ":", "/", "/", "x", ".", "c", "o", "m", "/", "s", "h", "a", "r", "e", "/", "d", "o", "c">>)}
OtherValues == {Missing, JInt(5)}

\* every body the validation specification sends
AllBodies ==
    {AbsentBody, GarbageBody}
    \cup {JsonBody(x) : x \in {JNull, JInt(0), JInt(5), JStr(<<>>), JStr(<<"x">>)}}
    \cup {JsonBody(MakeDict(f, t, c, b, o)) :
            f \in FromValues, t \in ToValues, c \in ContentValues,
            b \in ButtonValues, o \in OtherValues}

\* pieces a generated button_link is concatenated from
UrlTokens == {<<"h", "t", "t", "p", ":", "/", "/">>, <<"f", "t", "p", ":", "/", "/">>, <<"h", "t", "t", "p">>, <<"t", "h", "e", "t", "h", "i", "n", "k", "f", "i", "t", ".", "i", "n">>, <<"/", "i", "n", "v", "i", "t", "e">>, <<"d", "o", "c">>, <<"s", "h", "a", "r", "e">>, <<"x">>}

RECURSIVE UrlsOfLen(_)
UrlsOfLen(n) == IF n = 0 THEN {<<>>} ELSE {t \o u : t \in UrlTokens, u \in UrlsOfLen(n - 1)}

Urls == UNION {UrlsOfLen(n) : n \in 0..MaxUrlTokens}

\* an otherwise valid body carrying the link url
LinkBody(url) ==
    JsonBody(MakeDict(JStr(E_a_b_co), JStr(E_c_d_io), JStr(T_hi), JStr(url), Missing))

\* the bodies of the concurrent specification
ServerBodies ==
    {JsonBody(MakeDict(Missing, JStr(E_c_d_io), JStr(T_hi), Missing, Missing)),
     JsonBody(MakeDict(JStr(E_a_b_co), JStr(E_c_d_io), JStr(T_hi), JStr(<<"h", "t", "t", "p", ":", "/", "/", "x", ".", "c", "o", "m", "/", "s", "h", "a", "r", "e", "/", "d", "o", "c">>), Missing)),
     JsonBody(MakeDict(JStr(E_a_b_co), JStr(E_e_f_org_padded), JStr(T_hi), Missing, Missing))}

Get(body) == [method |-> "GET", path |-> "/health", body |-> body]
Post(body) == [method |-> "POST", path |-> "/send-email", body |-> body]

ServerRequests == {Get(AbsentBody)} \cup {Post(b) : b \in ServerBodies}
ValidateRequests == {Get(AbsentBody)} \cup {Post(b) : b \in AllBodies}
RenderRequests == {Get(AbsentBody), Post(AbsentBody)} \cup {Post(LinkBody(u)) : u \in Urls}

(* -------------------------------- state -------------------------------- *)
RequestIds == 1..MaxRequests

VARIABLES
    sg,             \* the module-level client: SendGridAPIClient or None
    req,            \* req[r]: the request r, once it has arrived
    pc,             \* pc[r]: where the handler of r stands
    locals,         \* locals[r]: the handler's local variables across the await
    queue,          \* work items submitted to the executor, not yet started
    running,        \* work items a thread is executing
    future,         \* future[r]: the future run_in_executor returned to r
    resp,           \* resp[r]: the response sent for r
    stages,         \* stages[r]: the stages r has passed, in order
    provider,       \* provider[r]: the provider calls made for r's mail
    atArrival       \* atArrival[r]: the dispatches running and the requests answered when r arrived

vars == <<sg, req, pc, locals, queue, running, future, resp, stages, provider, atArrival>>

NoRequest == [method |-> "none", path |-> "none", body |-> AbsentBody]
NoFuture == [state |-> "none", outcome |-> <<>>]
PendingFuture == [state |-> "pending", outcome |-> <<>>]
DoneFuture(o) == [state |-> "done", outcome |-> <<o>>]

\* the module body: the client is built once, or set to None when that fails
Init ==
    /\ sg \in {SendGridAPIClient, None}
    /\ req = [r \in RequestIds |-> NoRequest]
    /\ pc = [r \in RequestIds |-> "none"]
    /\ locals = [r \in RequestIds |-> <<>>]
    /\ queue = <<>>
    /\ running = {}
    /\ future = [r \in RequestIds |-> NoFuture]
    /\ resp = [r \in RequestIds |-> <<>>]
    /\ stages = [r \in RequestIds |-> <<>>]
    /\ provider = [r \in RequestIds |-> <<>>]
    /\ atArrival = [r \in RequestIds |-> [running |-> {}, done |-> {}]]

\* the event-loop thread is inside a blocking call
LoopBusy == \E it \in running : it.thread = "loop"

\* variant: the handler reads one result slot shared by all requests
AwaitedFutureShared(r) ==
    IF \E p \in RequestIds : future[p].state = "done"
    THEN CHOOSE p \in RequestIds :
            /\ future[p].state = "done"
            /\ \A p2 \in RequestIds : future[p2].state = "done" => p <= p2
    ELSE r

\* the future the suspended handler of r is waiting on
AwaitedFuture(r) == r

\* the server accepts request q as its r-th request and routes it
Arrive(r, q) ==
    /\ ~LoopBusy
    /\ pc[r] = "none"
    /\ \A p \in RequestIds : p < r => pc[p] # "none"
    /\ req' = [req EXCEPT ![r] = q]
    /\ pc' = [pc EXCEPT ![r] = "start"]
    /\ atArrival' = [atArrival EXCEPT ![r] = [running |-> {it.fut : it \in running},
                                            done |-> {p \in RequestIds : pc[p] = "done"}]]
    /\ UNCHANGED <<sg, locals, queue, running, future, resp, stages, provider>>

HealthCheck(r) ==
    /\ ~LoopBusy
    /\ pc[r] = "start"
    /\ req[r].method = "GET"
    /\ resp' = [resp EXCEPT ![r] = <<health_check(sg)>>]
    /\ pc' = [pc EXCEPT ![r] = "done"]
    /\ UNCHANGED <<sg, req, locals, queue, running, future, stages, provider, atArrival>>

\* send_email from its entry to  await request.json()
SendEmailStart(r) ==
    /\ ~LoopBusy
    /\ pc[r] = "start"
    /\ req[r].method = "POST"
    /\ stages' = [stages EXCEPT ![r] = <<"received">>]
    /\ LET o == send_email_start(sg) IN
        IF o.kind = "return"
        THEN /\ resp' = [resp EXCEPT ![r] = <<o.value>>]
             /\ pc' = [pc EXCEPT ![r] = "done"]
        ELSE /\ pc' = [pc EXCEPT ![r] = "await_json"]
             /\ UNCHANGED resp
    /\ UNCHANGED <<sg, req, locals, queue, running, future, provider, atArrival>>

\* send_email from the parsed body to  await loop.run_in_executor(...)
SendEmailBody(r) ==
    /\ ~LoopBusy
    /\ pc[r] = "await_json"
    /\ LET o == send_email_body(req[r].body) IN
        CASE o.kind = "return" ->
                /\ resp' = [resp EXCEPT ![r] = <<o.value>>]
                /\ pc' = [pc EXCEPT ![r] = "done"]
                /\ UNCHANGED <<locals, queue, future, stages>>
          [] o.kind = "raise" ->
                /\ resp' = [resp EXCEPT ![r] = <<except_Exception(o.value)>>]
                /\ pc' = [pc EXCEPT ![r] = "done"]
                /\ UNCHANGED <<locals, queue, future, stages>>
          [] o.kind = "continue" ->
                /\ locals' = [locals EXCEPT ![r] = <<o.value>>]
                /\ queue' = Append(queue, [fut |-> r, mail |-> o.value.mail])
                /\ future' = [future EXCEPT ![r] = PendingFuture]
                /\ stages' = [stages EXCEPT
                                ![r] = @ \o <<"validated", "rendered", "dispatch_pending">>]
                /\ pc' = [pc EXCEPT ![r] = "await_send"]
                /\ UNCHANGED resp
    /\ UNCHANGED <<sg, req, running, provider, atArrival>>

\* a free thread takes the oldest work item and calls sg.send(mail)
WorkerStart ==
    /\ queue # <<>>
    /\ Cardinality(running) < MaxWorkers
    /\ LET it == Head(queue) IN
        /\ running' = running \cup {[fut |-> it.fut, mail |-> it.mail, thread |-> RunsOn]}
        /\ provider' = [provider EXCEPT ![it.fut] = Append(@, [mail |-> it.mail, outcome |-> <<>>])]
    /\ queue' = Tail(queue)
    /\ UNCHANGED <<sg, req, pc, locals, future, resp, stages, atArrival>>

\* sg.send returns or raises; the thread completes the future
WorkerFinish(it, o) ==
    /\ it \in running
    /\ running' = running \ {it}
    /\ future' = [future EXCEPT ![it.fut] = DoneFuture(o)]
    /\ provider' = [provider EXCEPT ![it.fut][Len(provider[it.fut])].outcome = <<o>>]
    /\ UNCHANGED <<sg, req, pc, locals, queue, resp, stages, atArrival>>

\* send_email from the completion of the await to its response
SendEmailResume(r) ==
    /\ ~LoopBusy
    /\ pc[r] = "await_send"
    /\ future[AwaitedFuture(r)].state = "done"
    /\ LET o == future[AwaitedFuture(r)].outcome[1] IN
        IF o.kind = "return"
        THEN /\ resp' = [resp EXCEPT ![r] = <<send_email_success(locals[r][1], o.value)>>]
             /\ stages' = [stages EXCEPT ![r] = Append(@, "dispatch_complete")]
        ELSE /\ resp' = [resp EXCEPT ![r] = <<except_Exception(o.value)>>]
             /\ stages' = [stages EXCEPT ![r] = Append(@, "dispatch_failed")]
    /\ pc' = [pc EXCEPT ![r] = "done"]
    /\ UNCHANGED <<sg, req, locals, queue, running, future, provider, atArrival>>

Handle(r) == HealthCheck(r) \/ SendEmailStart(r) \/ SendEmailBody(r) \/ SendEmailResume(r)

Pool == WorkerStart \/ \E it \in running : \E o \in SendOutcomes : WorkerFinish(it, o)

\* concurrent requests
Next ==
    \/ \E r \in RequestIds : \E q \in ServerRequests : Arrive(r, q)
    \/ \E r \in RequestIds : Handle(r)
    \/ Pool

Spec == Init /\ [][Next]_vars

\* one request with every shape of body, then health checks
NextValidate ==
    \/ \E q \in ValidateRequests : Arrive(1, q)
    \/ \E r \in RequestIds \ {1} : Arrive(r, Get(AbsentBody))
    \/ \E r \in RequestIds : Handle(r)
    \/ Pool

SpecValidate == Init /\ [][NextValidate]_vars

\* one request, every generated button_link
NextRender ==
    \/ \E q \in RenderRequests : Arrive(1, q)
    \/ \E r \in RequestIds : Handle(r)
    \/ Pool

SpecRender == Init /\ [][NextRender]_vars

(* ======================== properties of the relay ====================== *)
Done(r) == pc[r] = "done"
IsPost(r) == req[r].method = "POST"
Answer(r) == resp[r][1]
BodyOf(r) == req[r].body

IsObject(body) == body.raw = "json" /\ body.data.t = "dict"
Present(body, k) == IsObject(body) /\ k \in DOMAIN body.data.v
IsText(body, k) == Present(body, k) /\ body.data.v[k].t = "str"
\* the field as the client sent it, trimmed
Trimmed(body, k) == strip(body.data.v[k].v)
MissingOrEmpty(body, k) == ~Present(body, k) \/ (IsText(body, k) /\ Trimmed(body, k) = <<>>)

RequiredKeys == <<"from_email", "to_email", "content">>
FieldKeys == {"from_email", "to_email", "content", "button_link"}
SomeRequiredMissing(body) == \E i \in 1..3 : MissingOrEmpty(body, RequiredKeys[i])
FirstMissing(body) ==
    RequiredKeys[CHOOSE i \in 1..3 :
                    /\ MissingOrEmpty(body, RequiredKeys[i])
                    /\ \A j \in 1..(i - 1) : ~MissingOrEmpty(body, RequiredKeys[j])]
RequiredMessage(k) ==
    CASE k = "from_email" -> "from_email is required"
      [] k = "to_email" -> "to_email is required"
      [] k = "content" -> "content is required"

\* a non-empty JSON object whose four fields, where present, are strings
WellTyped(body) ==
    /\ IsObject(body)
    /\ DOMAIN body.data.v # {}
    /\ \A k \in FieldKeys : Present(body, k) => IsText(body, k)

Is400(r, message) ==
    /\ Answer(r).status_code = 400
    /\ Answer(r).content.success = FALSE
    /\ Answer(r).content.message = <<message>>

\* C1 as stated: every POST with from_email, to_email or content missing or
\* empty after trimming is answered 400 with the message of the first such
\* field, in the order from_email, to_email, content.
C1_Original ==
    \A r \in RequestIds :
        (Done(r) /\ IsPost(r) /\ SomeRequiredMissing(BodyOf(r)))
            => Is400(r, RequiredMessage(FirstMissing(BodyOf(r))))

\* C1 amended: with the client configured and a body that parses to a
\* non-empty JSON object whose from_email, to_email, content and button_link,
\* where present, are strings, the answer is 400 naming the first offending
\* field in the order: from_email required, to_email required, content
\* required, invalid from_email format, invalid to_email format.
C1_Amended ==
    \A r \in RequestIds :
        (Done(r) /\ IsPost(r) /\ sg # None /\ WellTyped(BodyOf(r))) =>
            LET b == BodyOf(r) IN
            /\ SomeRequiredMissing(b) => Is400(r, RequiredMessage(FirstMissing(b)))
            /\ (~SomeRequiredMissing(b) /\ ~validate_email(Trimmed(b, "from_email")))
                    => Is400(r, "Invalid from_email format")
            /\ (/\ ~SomeRequiredMissing(b)
                /\ validate_email(Trimmed(b, "from_email"))
                /\ ~validate_email(Trimmed(b, "to_email")))
                    => Is400(r, "Invalid to_email format")

\* a request with from_email given, to_email and content both missing, answered
C1_Witness ==
    \E r \in RequestIds :
        /\ Done(r) /\ IsPost(r) /\ sg # None /\ WellTyped(BodyOf(r))
        /\ ~MissingOrEmpty(BodyOf(r), "from_email")
        /\ MissingOrEmpty(BodyOf(r), "to_email")
        /\ MissingOrEmpty(BodyOf(r), "content")
        /\ Is400(r, "to_email is required")

\* C2 as stated, taken where the client is configured: a POST whose body is
\* absent or is not JSON is answered 400 with {success: false, message},
\* never 500.
C2_Original ==
    \A r \in RequestIds :
        (Done(r) /\ IsPost(r) /\ sg # None /\ BodyOf(r).raw \in {"absent", "garbage"}) =>
            /\ Answer(r).status_code = 400
            /\ Answer(r).content.success = FALSE

NotConfiguredMessage ==
    <<"SendGrid not configured. Please check SENDGRID_API_KEY environment variable.">>

\* C3: with sg None every POST, whatever its body, is answered 500 with the
\* "not configured" message, nothing is ever handed to the provider, and
\* GET /health reports sendgrid_configured false.
C3_Theorem ==
    sg = None =>
        /\ queue = <<>> /\ running = {}
        /\ \A r \in RequestIds :
            /\ provider[r] = <<>>
            /\ future[r].state = "none"
            /\ (Done(r) /\ IsPost(r)) =>
                    /\ Answer(r).status_code = 500
                    /\ Answer(r).content.success = FALSE
                    /\ Answer(r).content.message = NotConfiguredMessage
            /\ (Done(r) /\ ~IsPost(r)) =>
                    /\ Answer(r).status_code = 200
                    /\ Answer(r).content.sendgrid_configured = FALSE

\* an otherwise deliverable POST refused for configuration, then a health check
C3_Witness ==
    /\ sg = None
    /\ Done(1) /\ IsPost(1)
    /\ send_email_body(BodyOf(1)).kind = "continue"
    /\ Answer(1).status_code = 500
    /\ Done(2) /\ ~IsPost(2)
    /\ Answer(2).content.sendgrid_configured = FALSE

FutureRaised(r) == future[r].state = "done" /\ future[r].outcome[1].kind = "raise"
FutureReturned(r) == future[r].state = "done" /\ future[r].outcome[1].kind = "return"

\* C4: a request whose provider call raised ends with 500 {success: false,
\* message: "Failed to send email: " plus the detail} carrying the error's text; every
\* finished request has a response (nothing escapes the handler), and a
\* request whose own call returned is still answered 200.
C4_Theorem ==
    \A r \in RequestIds :
        /\ Done(r) => resp[r] # <<>>
        /\ (Done(r) /\ FutureRaised(r)) =>
                /\ Answer(r).status_code = 500
                /\ Answer(r).content.success = FALSE
                /\ Answer(r).content.message =
                        <<"Failed to send email: ", future[r].outcome[1].value>>
        /\ (Done(r) /\ FutureReturned(r)) => Answer(r).status_code = 200

\* a provider failure answered 500, and a request that arrived after that
\* answer delivered with 200
C4_Witness ==
    \E r, q \in RequestIds :
        /\ Done(r) /\ FutureRaised(r) /\ Answer(r).status_code = 500
        /\ r \in atArrival[q].done
        /\ Done(q) /\ FutureReturned(q) /\ Answer(q).status_code = 200

IsPrefix(s, t) == Len(s) <= Len(t) /\ SubSeq(t, 1, Len(s)) = s
StagesToDispatch == <<"received", "validated", "rendered", "dispatch_pending">>
InQueue(r) == \E i \in 1..Len(queue) : queue[i].fut = r
IsRunning(r) == \E it \in running : it.fut = r

\* the request passes all five validation checks, computed from the body alone
Deliverable(body) ==
    /\ WellTyped(body)
    /\ ~SomeRequiredMissing(body)
    /\ validate_email(Trimmed(body, "from_email"))
    /\ validate_email(Trimmed(body, "to_email"))

C5_State ==
    \A r \in RequestIds :
        /\ \/ IsPrefix(stages[r], StagesToDispatch \o <<"dispatch_complete">>)
           \/ IsPrefix(stages[r], StagesToDispatch \o <<"dispatch_failed">>)
        /\ Len(provider[r]) <= 1
        /\ (InQueue(r) \/ IsRunning(r) \/ provider[r] # <<>>) =>
                /\ IsPrefix(StagesToDispatch, stages[r])
                /\ Deliverable(BodyOf(r))
                /\ locals[r] # <<>>
        /\ provider[r] # <<>> =>
                provider[r][1].mail =
                    Mail(Trimmed(BodyOf(r), "from_email"), Trimmed(BodyOf(r), "to_email"),
                         locals[r][1].mail.html_content)
        /\ Done(r) => ~InQueue(r) /\ ~IsRunning(r)
        /\ (Done(r) /\ IsPost(r) /\ Len(stages[r]) < 5) =>
                /\ provider[r] = <<>>
                /\ Answer(r).status_code \in {400, 500}
        /\ (Done(r) /\ Len(stages[r]) = 5 /\ stages[r][5] = "dispatch_failed") =>
                /\ Len(provider[r]) = 1
                /\ Answer(r).status_code = 500
        /\ (Done(r) /\ Len(stages[r]) = 5 /\ stages[r][5] = "dispatch_complete") =>
                Answer(r).status_code = 200

C5_Step ==
    \A r \in RequestIds :
        /\ IsPrefix(stages[r], stages'[r])
        /\ IsPrefix(provider[r], provider'[r]) \/ Len(provider'[r]) = Len(provider[r])
        /\ Done(r) => (Done(r)' /\ resp'[r] = resp[r] /\ provider'[r] = provider[r])

\* C5: a request's stages are a prefix of received, validated, rendered,
\* dispatch_pending, then dispatch_complete or dispatch_failed, and only grow;
\* the provider is called at most once per request, only for a request that
\* passes validation and has been rendered; an answered request is never
\* dispatched again, and one that failed before dispatch never reached the
\* provider.
C5_Theorem == [](C5_State) /\ [][C5_Step]_vars

\* a request whose single provider call failed and was answered 500
C5_Witness ==
    \E r \in RequestIds :
        /\ Done(r)
        /\ stages[r] = StagesToDispatch \o <<"dispatch_failed">>
        /\ Len(provider[r]) = 1
        /\ Answer(r).status_code = 500

\* C6: each 200 response carries the trimmed from_email and to_email of its
\* own request, has_button for its own link, and the status code the
\* provider returned for the call that carried its own mail.
C6_Theorem ==
    \A r \in RequestIds :
        (Done(r) /\ IsPost(r) /\ Answer(r).status_code = 200) =>
            LET d == Answer(r).content.data[1]
                b == BodyOf(r)
            IN  /\ d.from_email = Trimmed(b, "from_email")
                /\ d.to_email = Trimmed(b, "to_email")
                /\ d.has_button =
                        (Present(b, "button_link") /\ startswith(Trimmed(b, "button_link"), S_http))
                /\ Len(provider[r]) = 1
                /\ provider[r][1].mail.to_email = d.to_email
                /\ provider[r][1].mail.from_email = d.from_email
                /\ provider[r][1].outcome = <<Return([status_code |-> d.status_code])>>

\* two dispatches in flight together, the provider answering them with
\* different codes, the later request answered while the earlier one waits
C6_Witness ==
    \E r, q \in RequestIds :
        /\ r < q
        /\ pc[r] = "await_send" /\ FutureReturned(r)
        /\ Done(q) /\ Answer(q).status_code = 200
        /\ FutureReturned(q)
        /\ future[q].outcome[1].value.status_code # future[r].outcome[1].value.status_code
        /\ locals[r][1].to_email # locals[q][1].to_email

\* the request r would be answered from its body without a provider call
NeedsNoDispatch(r) == pc[r] = "await_json" /\ send_email_body(BodyOf(r)).kind # "continue"

\* C7: sg.send only ever runs on executor threads, at most MaxWorkers at a
\* time; while a dispatch is queued or running, the next request can be
\* accepted, an accepted request can enter its handler, and a request that
\* needs no dispatch can be answered in its next step.
C7_Theorem ==
    /\ \A it \in running : it.thread = "executor"
    /\ Cardinality(running) <= MaxWorkers
    /\ (queue # <<>> \/ running # {}) =>
        \A r \in RequestIds :
            /\ (pc[r] = "none" /\ \A p \in RequestIds : p < r => pc[p] # "none")
                    => ENABLED Arrive(r, Get(AbsentBody))
            /\ (pc[r] = "start" /\ ~IsPost(r)) => ENABLED (HealthCheck(r) /\ pc'[r] = "done")
            /\ (pc[r] = "start" /\ IsPost(r)) => ENABLED SendEmailStart(r)
            /\ (pc[r] = "await_json" /\ ~NeedsNoDispatch(r)) => ENABLED SendEmailBody(r)
            /\ NeedsNoDispatch(r) => ENABLED (SendEmailBody(r) /\ pc'[r] = "done")

\* every worker is inside a provider call, and a request that arrived during
\* those same calls has already been refused with 400
C7_Witness ==
    /\ Cardinality(running) = MaxWorkers
    /\ \E q \in RequestIds :
        /\ atArrival[q].running = {it.fut : it \in running}
        /\ Done(q) /\ IsPost(q)
        /\ Answer(q).status_code = 400

\* the link the client sent, trimmed, and the button block of the mail built for r
LinkOf(r) == Trimmed(BodyOf(r), "button_link")
BlockOf(r) == locals[r][1].mail.html_content.button_html
Rendered(r) == locals[r] # <<>>

\* the label rules as an ordered table
LabelRules ==
    << [patterns |-> {BrandInvite}, label |-> "Join ThinkFit"],
       [patterns |-> {BrandDomain}, label |-> "Open ThinkFit"],
       [patterns |-> {S_document, S_doc}, label |-> "View Document"],
       [patterns |-> {S_share, S_shared}, label |-> "View Shared Content"] >>
Matches(i, url) == \E p \in LabelRules[i].patterns : In(p, url)
FirstMatchLabel(url) ==
    IF \E i \in 1..Len(LabelRules) : Matches(i, url)
    THEN LabelRules[CHOOSE i \in 1..Len(LabelRules) :
                        Matches(i, url) /\ \A j \in 1..(i - 1) : ~Matches(j, url)].label
    ELSE "Open Link"

\* C8: the label of every rendered button is that of the first matching rule
\* of the table, "Open Link" when none matches; the gradient is the green one
\* exactly when the label is "Join ThinkFit" or "Open ThinkFit" and the
\* purple/blue one otherwise.
C8_Theorem ==
    \A r \in RequestIds :
        (Rendered(r) /\ BlockOf(r) # <<>>) =>
            LET blk == BlockOf(r)[1] IN
            /\ blk.href = LinkOf(r)
            /\ blk.button_text = FirstMatchLabel(blk.href)
            /\ blk.gradient \in {GreenGradient, PurpleGradient}
            /\ blk.gradient = GreenGradient
                    <=> blk.button_text \in {"Join ThinkFit", "Open ThinkFit"}
            /\ blk.shadow_color = GreenShadow <=> blk.gradient = GreenGradient
            /\ blk.shadow_color = PurpleShadow <=> blk.gradient = PurpleGradient

\* a brand link that also contains "doc": labelled by the brand rule, green
C8_Witness ==
    \E r \in RequestIds :
        /\ Rendered(r) /\ BlockOf(r) # <<>>
        /\ In(S_doc, LinkOf(r)) /\ In(BrandDomain, LinkOf(r)) /\ ~In(BrandInvite, LinkOf(r))
        /\ BlockOf(r)[1].button_text = "Open ThinkFit"
        /\ BlockOf(r)[1].gradient = GreenGradient

S_http_scheme == <<"h", "t", "t", "p", ":", "/", "/">>
S_https_scheme == <<"h", "t", "t", "p", "s", ":", "/", "/">>
HasHttpScheme(link) == startswith(link, S_http_scheme) \/ startswith(link, S_https_scheme)

\* C9 as stated: a button_link that after trimming starts with neither
\* "http://" nor "https://" yields no button block and has_button false, and
\* has_button is true exactly when the body contains a button block.
C9_Original ==
    \A r \in RequestIds :
        (Rendered(r) /\ Present(BodyOf(r), "button_link")) =>
            /\ ~HasHttpScheme(LinkOf(r)) => BlockOf(r) = <<>>
            /\ (Done(r) /\ Answer(r).status_code = 200) =>
                    /\ ~HasHttpScheme(LinkOf(r)) => Answer(r).content.data[1].has_button = FALSE
                    /\ Answer(r).content.data[1].has_button <=> BlockOf(r) # <<>>

\* C10 as stated, for links whose button is rendered: a link containing
\* "share" and not the brand domain is labelled "View Shared Content" and
\* gets the purple/blue palette.
C10_Original ==
    \A r \in RequestIds :
        (/\ Rendered(r) /\ BlockOf(r) # <<>>
         /\ In(S_share, LinkOf(r)) /\ ~In(BrandDomain, LinkOf(r))) =>
            /\ BlockOf(r)[1].button_text = "View Shared Content"
            /\ BlockOf(r)[1].gradient = PurpleGradient

\* C10 amended: a rendered link (one that starts with "http") containing
\* "share" and neither the brand domain nor "doc" is labelled
\* "View Shared Content" and gets the purple/blue palette.
C10_Amended ==
    \A r \in RequestIds :
        (/\ Rendered(r) /\ Present(BodyOf(r), "button_link")
         /\ startswith(LinkOf(r), S_http)
         /\ In(S_share, LinkOf(r)) /\ ~In(BrandDomain, LinkOf(r)) /\ ~In(S_doc, LinkOf(r))) =>
            /\ BlockOf(r) # <<>>
            /\ BlockOf(r)[1].button_text = "View Shared Content"
            /\ BlockOf(r)[1].gradient = PurpleGradient
            /\ BlockOf(r)[1].shadow_color = PurpleShadow

\* such a link, rendered
C10_Witness ==
    \E r \in RequestIds :
        /\ Rendered(r) /\ BlockOf(r) # <<>>
        /\ In(S_share, LinkOf(r)) /\ ~In(BrandDomain, LinkOf(r)) /\ ~In(S_doc, LinkOf(r))
        /\ BlockOf(r)[1].button_text = "View Shared Content"
        /\ BlockOf(r)[1].gradient = PurpleGradient

====
